---- MODULE Spec2Model ----
(***************************************************************************)
(* Model of aozora.py (Aozora Corpus Builder): init_metadata builds the    *)
(* metadata index from the CSV, strip_ruby removes ruby glosses, and main  *)
(* walks the index, extracts and tokenizes each local file, writes one     *)
(* .txt per work and finally the extended CSV.                             *)
(*                                                                         *)
(* Python str values are sequences of one-character strings, so that       *)
(* str.lstrip, str.replace, str.split, "in" and re.sub are computed        *)
(* character by character as Python computes them.  The module text is     *)
(* ASCII only: the full-width parentheses U+FF08 / U+FF09 of the legacy     *)
(* ruby pattern are written "(" and ")", and the Japanese part of the      *)
(* column name "XHTML/HTML...URL" is written "-".                          *)
(***************************************************************************)
EXTENDS Naturals, Sequences, FiniteSets, TLC

VARIABLES
    table,        \* rows of source_csv as csv.reader yields them; table[1] is the header
    pc,           \* position of main(): init, rows, loop, read, tokenize, append,
                  \* write, done, aborted (ruby, ruby_done: strip_ruby run alone)
    fault,        \* the exception that left main(), "None" while there is none
    html_column,  \* init_metadata: index of source_path in the header (1-based)
    row_ix,       \* init_metadata: position of csv_reader in table
    metadata,     \* the dict metadata: <<key, list of fields>> in insertion order
    i,            \* main: position of "for filename in metadata" among the keys
    seen,         \* the local file tree as far as main has looked: per key,
                  \* [is_file, text] (f.is_file(), the text extracted from f)
    doc,          \* content of the file being read (its parts, see Render)
    text,         \* main: local variable text
    parsed_text,  \* main: local variable parsed_text
    writes,       \* the writes made to out_path, in order: [key, name, text]
    out_csv       \* rows written to out_csv, NotWritten before

vars == <<table, pc, fault, html_column, row_ix, metadata, i, seen,
          doc, text, parsed_text, writes, out_csv>>

---------------------------------------------------------------------------
(* Bounds of the model.                                                    *)

\* Data rows of a table handed to init_metadata alone.
MaxRows == 3

\* Data rows of a table handed to main.
MaxFiles == 2

\* Length of a ruby base fragment.
MaxFrag == 2

---------------------------------------------------------------------------
(* Module-level constants of aozora.py.                                    *)

ruby_start == <<"<", "r", "u", "b", "y", ">", "<", "r", "b", ">">>
ruby_end == <<"<", "/", "r", "b", ">">>
ruby_old_start == <<"<", "!", "R", ">">>
ruby_old_end == <<"(">>

\* "<ruby><rb>.*?</rb><rp>.*?</ruby>" as its three literals, ".*?" between them
ruby_pattern ==
    << ruby_start,
       <<"<", "/", "r", "b", ">", "<", "r", "p", ">">>,
       <<"<", "/", "r", "u", "b", "y", ">">> >>

\* "<!R>.*?(.*?)" with the full-width parentheses
ruby_pattern_old == << ruby_old_start, <<"(">>, <<")">> >>

source_url ==
    <<"h", "t", "t", "p", "s", ":", "/", "/", "w", "w", "w", ".", "a", "o",
      "z", "o", "r", "a", ".", "g", "r", ".", "j", "p", "/", "c", "a", "r",
      "d", "s">>

source_path ==
    <<"X", "H", "T", "M", "L", "/", "H", "T", "M", "L", "-", "U", "R", "L">>

TokenizedFilename ==
    <<"T", "o", "k", "e", "n", "i", "z", "e", "d", " ", "F", "i", "l", "e",
      "n", "a", "m", "e">>

HeaderKey == <<"h", "e", "a", "d", "e", "r">>

---------------------------------------------------------------------------
(* Python str operations.                                                  *)

Range(s) == {s[k] : k \in 1..Len(s)}

Min(S) == CHOOSE m \in S : \A n \in S : m <= n

\* s[k : k + len(lit)] == lit, k counted from 1
AtPos(s, lit, k) ==
    /\ k >= 1
    /\ k + Len(lit) - 1 <= Len(s)
    /\ SubSeq(s, k, k + Len(lit) - 1) = lit

\* sub in s
Contains(sub, s) == \E k \in 1..(Len(s) + 1) : AtPos(s, sub, k)

\* s.lstrip(chars): drops leading characters while they are in the SET chars
RECURSIVE lstrip(_, _)
lstrip(s, chars) ==
    IF s # <<>> /\ s[1] \in Range(chars) THEN lstrip(Tail(s), chars) ELSE s

\* s.split(sep)[0]: the text before the first occurrence of sep
split_first(s, sep) ==
    LET hits == {k \in 1..Len(s) : AtPos(s, sep, k)}
    IN  IF hits = {} THEN s ELSE SubSeq(s, 1, Min(hits) - 1)

\* s.replace(old, new), old not empty: left to right, non-overlapping
RECURSIVE str_replace(_, _, _)
str_replace(s, old, new) ==
    IF s = <<>> THEN <<>>
    ELSE IF AtPos(s, old, 1)
         THEN new \o str_replace(SubSeq(s, Len(old) + 1, Len(s)), old, new)
         ELSE <<s[1]>> \o str_replace(Tail(s), old, new)

RECURSIVE Concat(_)
Concat(ss) == IF ss = <<>> THEN <<>> ELSE ss[1] \o Concat(Tail(ss))

---------------------------------------------------------------------------
(* Matching a pattern  L1 .*? L2 .*? L3  as re.sub does (no re.DOTALL).    *)

\* "." matches every character of s[a..b]
DotRun(s, a, b) == \A k \in a..b : s[k] # "\n"

\* positions c where L3 completes a match whose L2 stands at b
Closes(s, pat, b) ==
    {c \in (b + Len(pat[2]))..Len(s) :
        AtPos(s, pat[3], c) /\ DotRun(s, b + Len(pat[2]), c - 1)}

\* positions b where L2 can stand in a match that starts at a
Mids(s, pat, a) ==
    {b \in (a + Len(pat[1]))..Len(s) :
        /\ AtPos(s, pat[2], b)
        /\ DotRun(s, a + Len(pat[1]), b - 1)
        /\ Closes(s, pat, b) # {}}

\* leftmost match in s: <<first, last>>, or <<0, 0>>; both ".*?" are lazy
re_search(pat, s) ==
    LET starts == {a \in 1..Len(s) : AtPos(s, pat[1], a) /\ Mids(s, pat, a) # {}}
    IN  IF starts = {} THEN <<0, 0>>
        ELSE LET a == Min(starts)
                 b == Min(Mids(s, pat, a))
                 c == Min(Closes(s, pat, b))
             IN  <<a, c + Len(pat[3]) - 1>>

\* s cut into the text between matches and the matches, in order
RECURSIVE re_pieces(_, _)
re_pieces(pat, s) ==
    LET m == re_search(pat, s)
    IN  IF m[1] = 0 THEN << [match |-> FALSE, s |-> s] >>
        ELSE << [match |-> FALSE, s |-> SubSeq(s, 1, m[1] - 1)],
                [match |-> TRUE, s |-> SubSeq(s, m[1], m[2])] >>
             \o re_pieces(pat, SubSeq(s, m[2] + 1, Len(s)))

---------------------------------------------------------------------------
(* strip_ruby and its two replacement callbacks.                           *)

\* matchobj.group(0).lstrip(ruby["start"]).split(ruby["end"])[0]
ruby_replace(group0) == split_first(lstrip(group0, ruby_start), ruby_end)

\* matchobj.group(0).lstrip(ruby_old["start"]).split(ruby_old["end"])[0]
ruby_replace_old(group0) ==
    split_first(lstrip(group0, ruby_old_start), ruby_old_end)

\* re.sub(ruby_pattern, ruby_replace, text)
ruby_sub(t) ==
    LET ps == re_pieces(ruby_pattern, t)
    IN  Concat([k \in 1..Len(ps) |->
                  IF ps[k].match THEN ruby_replace(ps[k].s) ELSE ps[k].s])

\* re.sub(ruby_pattern_old, ruby_replace_old, text)
ruby_sub_old(t) ==
    LET ps == re_pieces(ruby_pattern_old, t)
    IN  Concat([k \in 1..Len(ps) |->
                  IF ps[k].match THEN ruby_replace_old(ps[k].s) ELSE ps[k].s])

strip_ruby(t) ==
    IF Contains(ruby_start, t) THEN ruby_sub(t)
    ELSE IF Contains(ruby_old_start, t) THEN ruby_sub_old(t)
         ELSE t

---------------------------------------------------------------------------
(* Documents: the content of a local HTML file, as the parts the ruby      *)
(* patterns distinguish.                                                   *)

BaseChars == {"x", "b", "R"}

\* the base fragments: the non-empty strings over BaseChars up to MaxFrag
Frags == UNION {[1..n -> BaseChars] : n \in 1..MaxFrag}

Span(d) ==
    IF d.dialect = "Modern"
    THEN ruby_pattern[1] \o d.base \o ruby_pattern[2] \o d.gloss \o ruby_pattern[3]
    ELSE IF d.dialect = "Legacy"
         THEN ruby_pattern_old[1] \o d.base \o ruby_pattern_old[2] \o d.gloss
              \o ruby_pattern_old[3]
         ELSE d.base

\* the file's text: pre, then the annotated base fragment (once or twice), then post
Render(d) == d.pre \o Concat([k \in 1..d.spans |-> Span(d)]) \o d.post

RubyDocs ==
    [dialect : {"Modern", "Legacy", "None"},
     pre : {<<>>, <<"x">>},
     base : Frags,
     gloss : {<<"g">>, <<"g", "\n">>},
     post : {<<>>, <<"y">>},
     spans : {1, 2}]

DriverDocs ==
    {[dialect |-> "Modern", pre |-> <<>>, base |-> <<"x">>, gloss |-> <<"g">>,
      post |-> <<"<", "b", "r", " ", "/", ">", "\n", "y">>, spans |-> 1],
     [dialect |-> "None", pre |-> <<>>, base |-> <<>>, gloss |-> <<"g">>,
      post |-> <<>>, spans |-> 1]}

NoDoc == [dialect |-> "None", pre |-> <<>>, base |-> <<>>, gloss |-> <<>>,
          post |-> <<>>, spans |-> 1]

---------------------------------------------------------------------------
(* The dict metadata, insertion-ordered: a sequence of <<key, value>>.     *)

DictKeys(d) == [k \in 1..Len(d) |-> d[k][1]]

DictHas(d, key) == \E k \in 1..Len(d) : d[k][1] = key

DictGet(d, key) == d[CHOOSE k \in 1..Len(d) : d[k][1] = key][2]

\* d[key] = val
DictSet(d, key, val) ==
    IF DictHas(d, key)
    THEN [k \in 1..Len(d) |-> IF d[k][1] = key THEN <<key, val>> ELSE d[k]]
    ELSE Append(d, <<key, val>>)

\* d without key (d.pop(key) leaves the other keys in their order)
DictDel(d, key) == SelectSeq(d, LAMBDA e : e[1] # key)

---------------------------------------------------------------------------
(* init_metadata                                                           *)

\* header_row.index(source_path), counted from 1; 0 stands for ValueError
header_index(header_row) ==
    LET hits == {k \in 1..Len(header_row) : header_row[k] = source_path}
    IN  IF hits = {} THEN 0 ELSE Min(hits)

\* row[html_column].lstrip(source_url)
file_path_of(url) == lstrip(url, source_url)

\* "if source_url in row[html_column]"
url_matches(url) == Contains(source_url, url)

\* the overwriting store a missing "not in" test would make
store_row_overwrite(md, file_path, row) == DictSet(md, file_path, row)

\* "if file_path not in metadata: metadata[file_path] = row"
store_row(md, file_path, row) ==
    IF ~DictHas(md, file_path) THEN DictSet(md, file_path, row) ELSE md

Url(rest) == source_url \o rest

\* data rows of the source CSV: [id, url] with the id in front
RowPool ==
    { << <<"a">>, Url(<<"/", "1", "/", "2", ".", "h", "t", "m", "l">>) >>,
      << <<"b">>, Url(<<"/", "1", "-", "2", ".", "h", "t", "m", "l">>) >>,
      << <<"c">>, Url(<<"/", "1", "/", "2", ".", "h", "t", "m", "l">>) >>,
      << <<"d">>, Url(<<"/", "c", "a", "r", "d", "9", ".", "h", "t", "m", "l">>) >>,
      << <<"e">>, <<"h", "t", "t", "p", ":", "/", "/", "x", ".", "j", "p", "/",
                     "9", ".", "h", "t", "m", "l">> >>,
      << <<"h">>, Url(<<"/", "9", ".", "h", "t", "m", "l">>) >>,
      << <<"f">> >>,
      << >>,
      << <<"g">>, Url(<<"/", "1", "/", "2", ".", "h", "t", "m", "l">>), <<"z">> >> }

DriverRowPool ==
    { << <<"a">>, Url(<<"/", "1", "/", "2", ".", "h", "t", "m", "l">>) >>,
      << <<"b">>, Url(<<"/", "1", "-", "2", ".", "h", "t", "m", "l">>) >>,
      << <<"c">>, Url(<<"/", "1", "/", "2", ".", "h", "t", "m", "l">>) >>,
      << <<"e">>, <<"h", "t", "t", "p", ":", "/", "/", "x", ".", "j", "p", "/",
                     "9", ".", "h", "t", "m", "l">> >>,
      << <<"f">> >> }

Headers == { << <<"i", "d">>, source_path >>, << <<"i", "d">> >> }

Tables(pool, n) ==
    {<<h>> \o rows : h \in Headers, rows \in UNION {[1..k -> pool] : k \in 0..n}}

NotWritten == << <<"-">> >>

\* the state before main() runs, but for table and pc
Fresh ==
    /\ fault = "None"
    /\ html_column = 0
    /\ row_ix = 1
    /\ metadata = <<>>
    /\ i = 1
    /\ seen = <<>>
    /\ doc = NoDoc
    /\ text = <<>>
    /\ parsed_text = <<>>
    /\ writes = <<>>
    /\ out_csv = NotWritten

Abort(exc) ==
    /\ pc' = "aborted"
    /\ fault' = exc

\* lines 58-61: read the header, find the URL column, store the header entry
ReadHeader ==
    /\ pc = "init"
    /\ LET header_row == table[1]
           col == header_index(header_row)
       IN  IF col = 0
           THEN /\ Abort("ValueError")
                /\ UNCHANGED <<html_column, row_ix, metadata>>
           ELSE /\ html_column' = col
                /\ row_ix' = 2
                /\ metadata' = DictSet(metadata, HeaderKey,
                                       Append(header_row, TokenizedFilename))
                /\ pc' = "rows"
                /\ UNCHANGED fault
    /\ UNCHANGED <<table, i, seen, doc, text, parsed_text, writes, out_csv>>

\* lines 63-68: one iteration of "for row in csv_reader"
ReadRow ==
    /\ pc = "rows"
    /\ row_ix <= Len(table)
    /\ LET row == table[row_ix]
       IN  IF Len(row) < html_column
           THEN /\ Abort("IndexError")
                /\ UNCHANGED <<row_ix, metadata>>
           ELSE /\ metadata' =
                      IF url_matches(row[html_column])
                      THEN store_row(metadata, file_path_of(row[html_column]), row)
                      ELSE metadata
                /\ row_ix' = row_ix + 1
                /\ UNCHANGED <<pc, fault>>
    /\ UNCHANGED <<table, html_column, i, seen, doc, text, parsed_text, writes,
                   out_csv>>

\* line 69: the reader is exhausted, init_metadata returns
ReturnMetadata ==
    /\ pc = "rows"
    /\ row_ix > Len(table)
    /\ pc' = "loop"
    /\ i' = 1
    /\ UNCHANGED <<table, fault, html_column, row_ix, metadata, seen, doc, text,
                   parsed_text, writes, out_csv>>

---------------------------------------------------------------------------
(* to_plain_text: the html5lib tree is the parser's answer, the choice     *)
(* among its elements is the code's.                                       *)

NoBody == << <<"-">> >>

\* html_text.replace("<br />", "")
drop_br(html_text) == str_replace(html_text, <<"<", "b", "r", " ", "/", ">">>, <<>>)

\* what bs(html_text, "html5lib") may hold: the elements of class main_text
\* (their .text) and the body element (its .text, or NoBody for None)
Trees(html_text) ==
    [main_text : {<<>>, <<html_text>>, << <<>> >>, <<html_text, html_text>>},
     body : {NoBody, <<>>, html_text}]

to_plain_text(tree) ==
    IF Len(tree.main_text) = 1 THEN tree.main_text[1]
    ELSE IF Len(tree.main_text) = 0 /\ tree.body # NoBody THEN tree.body
         ELSE <<>>

---------------------------------------------------------------------------
(* Tokenization: lines 196-198.                                            *)

IsSpace(c) == c \in {" ", "\n"}

RECURSIVE rstrip(_)
rstrip(s) ==
    IF s # <<>> /\ IsSpace(s[Len(s)]) THEN rstrip(SubSeq(s, 1, Len(s) - 1)) ELSE s

RECURSIVE lstrip_ws(_)
lstrip_ws(s) == IF s # <<>> /\ IsSpace(s[1]) THEN lstrip_ws(Tail(s)) ELSE s

\* s.strip()
strip(s) == lstrip_ws(rstrip(s))

\* s.split("\n")
RECURSIVE split_lines(_)
split_lines(s) ==
    LET hits == {k \in 1..Len(s) : s[k] = "\n"}
    IN  IF hits = {} THEN <<s>>
        ELSE <<SubSeq(s, 1, Min(hits) - 1)>>
             \o split_lines(SubSeq(s, Min(hits) + 1, Len(s)))

\* "\n".join(lines)
RECURSIVE join_lines(_)
join_lines(lines) ==
    IF Len(lines) = 0 THEN <<>>
    ELSE IF Len(lines) = 1 THEN lines[1]
         ELSE lines[1] \o <<"\n">> \o join_lines(Tail(lines))

\* tagger.parse(line) with -Owakati: the words (here: one per character)
\* separated by blanks, closed by " \n"
tagger_parse(line) ==
    Concat([k \in 1..Len(line) |-> <<line[k], " ">>]) \o <<"\n">>

tokenize(t) ==
    LET text_lines == split_lines(t)
    IN  strip(join_lines([k \in 1..Len(text_lines) |->
                            strip(tagger_parse(text_lines[k]))]))

---------------------------------------------------------------------------
(* main: the loop over the keys of metadata, and the final CSV.            *)

\* lines 201-203
out_filename_of(filename) ==
    <<"t", "-">> \o str_replace(str_replace(filename, <<"h", "t", "m", "l">>,
                                            <<"t", "x", "t">>),
                                <<"/">>, <<"-">>)

filename == DictKeys(metadata)[i]

\* what the local file tree held at aozorabunko_html/cards/<filename>
See(is_file, t) == seen' = (filename :> [is_file |-> is_file, text |-> t]) @@ seen

NextFile ==
    /\ i' = i + 1
    /\ pc' = "loop"

\* lines 181-185: the next key of metadata, and f.is_file()
Locate ==
    /\ pc = "loop"
    /\ i <= Len(metadata)
    /\ \E is_file \in BOOLEAN :
          /\ IF is_file
             THEN /\ pc' = "read"
                  /\ UNCHANGED i
             ELSE /\ NextFile
          /\ See(is_file, <<>>)
    /\ UNCHANGED <<table, fault, html_column, row_ix, metadata, doc, text,
                   parsed_text, writes, out_csv>>

\* the truthiness test the loop would lack without "if text:"
has_text_always(t) == TRUE

\* line 194: "if text:"
has_text(t) == t # <<>>

\* lines 186-194: open, read, strip_ruby, to_plain_text, "if text:"
Extract ==
    /\ pc = "read"
    /\ \/ /\ Abort("ReadError")
          /\ UNCHANGED <<i, seen, doc, text>>
       \/ \E d \in DriverDocs :
            \E tree \in Trees(drop_br(strip_ruby(Render(d)))) :
               /\ doc' = d
               /\ text' = to_plain_text(tree)
               /\ See(TRUE, text')
               /\ IF has_text(text')
                  THEN /\ pc' = "tokenize"
                       /\ UNCHANGED i
                  ELSE NextFile
               /\ UNCHANGED fault
    /\ UNCHANGED <<table, html_column, row_ix, metadata, parsed_text, writes,
                   out_csv>>

\* lines 196-198
Tokenize ==
    /\ pc = "tokenize"
    /\ \/ /\ Abort("TokenizeError")
          /\ UNCHANGED parsed_text
       \/ /\ parsed_text' = tokenize(text)
          /\ pc' = "append"
          /\ UNCHANGED fault
    /\ UNCHANGED <<table, html_column, row_ix, metadata, i, seen, doc, text,
                   writes, out_csv>>

\* lines 201-204: metadata[filename].append(out_filename)
AppendName ==
    /\ pc = "append"
    /\ metadata' = DictSet(metadata, filename,
                           Append(DictGet(metadata, filename),
                                  out_filename_of(filename)))
    /\ pc' = "write"
    /\ UNCHANGED <<table, fault, html_column, row_ix, i, seen, doc, text,
                   parsed_text, writes, out_csv>>

\* lines 205-207: open the output file and write parsed_text
WriteOut ==
    /\ pc = "write"
    /\ \/ /\ Abort("WriteError")
          /\ UNCHANGED <<i, seen, writes>>
       \/ /\ writes' = Append(writes, [key |-> filename,
                                       name |-> out_filename_of(filename),
                                       text |-> parsed_text])
          /\ NextFile
          /\ UNCHANGED <<fault, seen>>
    /\ UNCHANGED <<table, html_column, row_ix, metadata, doc, text, parsed_text,
                   out_csv>>

\* lines 209-214: the header popped and written, then every remaining entry
WriteCsv ==
    /\ pc = "loop"
    /\ i > Len(metadata)
    /\ LET rest == DictDel(metadata, HeaderKey)
       IN  /\ out_csv' = <<DictGet(metadata, HeaderKey)>>
                         \o [k \in 1..Len(rest) |-> rest[k][2]]
           /\ metadata' = rest
    /\ pc' = "done"
    /\ UNCHANGED <<table, fault, html_column, row_ix, i, seen, doc, text,
                   parsed_text, writes>>

\* strip_ruby applied to a document, alone
StripRuby ==
    /\ pc = "ruby"
    /\ text' = strip_ruby(text)
    /\ pc' = "ruby_done"
    /\ UNCHANGED <<table, fault, html_column, row_ix, metadata, i, seen, doc,
                   parsed_text, writes, out_csv>>

---------------------------------------------------------------------------
(* Specifications.                                                         *)

\* main() on a table and a local file tree
Init ==
    /\ table \in Tables(DriverRowPool, MaxFiles)
    /\ pc = "init"
    /\ Fresh

Next ==
    \/ ReadHeader
    \/ ReadRow
    \/ ReturnMetadata
    \/ Locate
    \/ Extract
    \/ Tokenize
    \/ AppendName
    \/ WriteOut
    \/ WriteCsv

Spec == Init /\ [][Next]_vars

\* init_metadata on a table
InitIndex ==
    /\ table \in Tables(RowPool, MaxRows)
    /\ pc = "init"
    /\ Fresh

NextIndex ==
    \/ ReadHeader
    \/ ReadRow
    \/ ReturnMetadata

SpecIndex == InitIndex /\ [][NextIndex]_vars

\* strip_ruby on a document
InitRuby ==
    /\ table = << <<source_path>> >>
    /\ pc = "ruby"
    /\ fault = "None"
    /\ html_column = 0
    /\ row_ix = 1
    /\ metadata = <<>>
    /\ i = 1
    /\ seen = <<>>
    /\ doc \in RubyDocs
    /\ text = Render(doc)
    /\ parsed_text = <<>>
    /\ writes = <<>>
    /\ out_csv = NotWritten

NextRuby == StripRuby

SpecRuby == InitRuby /\ [][NextRuby]_vars

---------------------------------------------------------------------------
(* Vocabulary of the properties.                                           *)

\* faults raised while one file is read, parsed, tokenized or written
PerFileFaults == {"ReadError", "TokenizeError", "WriteError"}

\* main() has returned or has been left by an exception
RunEnded == pc \in {"done", "aborted"}

\* a per-file fault was raised while the key visited was a FileID
FileFailed ==
    /\ fault \in PerFileFaults
    /\ i \in 1..Len(metadata)
    /\ metadata[i][1] # HeaderKey

\* init_metadata has returned
IndexBuilt == html_column # 0 /\ row_ix > Len(table) /\ pc # "rows"

\* data rows of the table read so far by init_metadata
Processed == 2..(row_ix - 1)

\* row k holds an origin URL that contains the source prefix
Matching(k) ==
    /\ Len(table[k]) >= html_column
    /\ url_matches(table[k][html_column])

\* the FileID the code computes for row k
FID(k) == file_path_of(table[k][html_column])

\* the first processed row with the FileID f
FirstRow(f) == table[Min({k \in Processed : Matching(k) /\ FID(k) = f})]

\* the entries of the index other than the header entry
FileEntries == {e \in Range(metadata) : e[1] # HeaderKey}

\* the names of the files present in the output directory
OutputFiles == {writes[k].name : k \in 1..Len(writes)}

\* the row of entry e carries the derived output filename
Carries(e) == e[2] = Append(FirstRow(e[1]), out_filename_of(e[1]))

RECURSIVE Ascending(_)
Ascending(K) == IF K = {} THEN <<>> ELSE <<Min(K)>> \o Ascending(K \ {Min(K)})

\* the rows kept by the index, in table order: the first row of each FileID
KeptRows ==
    Ascending({k \in Processed : Matching(k)
                 /\ \A j \in Processed : (j < k /\ Matching(j)) => FID(j) # FID(k)})

---------------------------------------------------------------------------
(* Properties.                                                             *)

\* C1: a fault raised while one file is read, stripped, extracted, tokenized
\* or written degrades only that file: the run still visits every key and
\* ends with the metadata table written.
C1_FaultIsolation ==
    (RunEnded /\ FileFailed) =>
        (out_csv # NotWritten /\ i > Len(metadata))

\* C2: strip_ruby replaces each matched ruby span by exactly its base
\* fragment, whatever characters the base fragment begins with: a document
\* pre + spans + post becomes pre + base fragments + post.
C2_BaseFragmentKept ==
    (pc = "ruby_done" /\ doc.dialect \in {"Modern", "Legacy"}
       /\ "\n" \notin Range(doc.gloss)) =>
        text = doc.pre \o Concat([k \in 1..doc.spans |-> doc.base]) \o doc.post

\* C3: a row whose origin URL is the source prefix, "/" and a remainder is
\* stored in the index under that remainder, character for character.
C3_FileIDIsRemainder ==
    \A k \in Processed :
        LET url == table[k][html_column]
            n == Len(source_url)
        IN  (Len(table[k]) >= html_column /\ Len(url) > n
               /\ SubSeq(url, 1, n + 1) = source_url \o <<"/">>) =>
                DictHas(metadata, SubSeq(url, n + 2, Len(url)))

\* C4: in the final table a row carries the derived output filename iff its
\* file was a regular local file with a non-empty extracted text; a Missing
\* or Unextractable FileID has its row as loaded and no output file written
\* for it.
C4_SuccessSignal ==
    pc = "done" =>
        \A e \in FileEntries :
            IF seen[e[1]].is_file /\ seen[e[1]].text # <<>>
            THEN Carries(e)
            ELSE /\ e[2] = FirstRow(e[1])
                 /\ \A k \in 1..Len(writes) : writes[k].key # e[1]

\* a run that ended with one file tokenized and written, one file found
\* without extractable text and one FileID without a local file
C4_Witness ==
    /\ pc = "done"
    /\ \E e \in FileEntries : seen[e[1]].is_file /\ seen[e[1]].text # <<>>
    /\ \E e \in FileEntries : seen[e[1]].is_file /\ seen[e[1]].text = <<>>

\* C5: once the run has ended, with every file processed or some file
\* Failed, the output table is the header row followed by exactly one row
\* per FileID of the index in insertion order, with or without the derived
\* value.
C5_FinalSerialization ==
    (IndexBuilt /\ (pc = "done" \/ (pc = "aborted" /\ FileFailed))) =>
        /\ Len(out_csv) = 1 + Len(KeptRows)
        /\ SubSeq(out_csv[1], 1, Len(table[1])) = table[1]
        /\ \A n \in 1..Len(KeptRows) :
              LET row == table[KeptRows[n]]
              IN  out_csv[n + 1] \in
                      {row, Append(row, out_filename_of(FID(KeptRows[n])))}

\* the part of C5 that does not rest on a Failed file: the table of a run
\* that went through
FinalSerializationOfCompleteRun ==
    pc = "done" =>
        /\ Len(out_csv) = 1 + Len(KeptRows)
        /\ SubSeq(out_csv[1], 1, Len(table[1])) = table[1]
        /\ \A n \in 1..Len(KeptRows) :
              LET row == table[KeptRows[n]]
              IN  out_csv[n + 1] \in
                      {row, Append(row, out_filename_of(FID(KeptRows[n])))}

\* C6: the header entry is never handled as a FileID: no output file is
\* written for it and the header row written is the input column names plus
\* the one derived column name.
C6_HeaderNotAFileID ==
    /\ \A k \in 1..Len(writes) : writes[k].key # HeaderKey
    /\ pc = "done" => out_csv[1] = Append(table[1], TokenizedFilename)

\* C7: the index holds, for each FileID computed from the rows read so far
\* whose origin URL contains the source prefix, exactly the first such row;
\* every other entry is the header entry, and no key is held twice.
C7_FirstOccurrenceWins ==
    html_column # 0 =>
        /\ \A k \in Processed :
              Matching(k) => /\ DictHas(metadata, FID(k))
                             /\ DictGet(metadata, FID(k)) = FirstRow(FID(k))
        /\ \A e \in FileEntries :
              \E k \in Processed : Matching(k) /\ FID(k) = e[1]
        /\ \A a, b \in 1..Len(metadata) :
              metadata[a][1] = metadata[b][1] => a = b

\* init_metadata has returned after reading two different rows of one FileID
\* and a row whose URL lacks the prefix
C7_Witness ==
    /\ pc = "loop"
    /\ \E j, k \in Processed :
          /\ j < k
          /\ Matching(j) /\ Matching(k)
          /\ FID(j) = FID(k)
          /\ table[j] # table[k]
    /\ \E k \in Processed : ~Matching(k)

\* C8: a data row of any field count never aborts index building; only a
\* header without the origin-URL column does.
C8_AnyFieldCountAccepted == pc = "aborted" => fault = "ValueError"

\* C9: no output file written for one FileID is overwritten by another, and
\* at the end of the run there are as many output files of FileIDs as rows
\* carrying a derived value.
C9_OneFilePerFileID ==
    pc = "done" =>
        /\ \A a, b \in 1..Len(writes) :
              writes[a].name = writes[b].name => writes[a].key = writes[b].key
        /\ Cardinality({writes[k].name :
                          k \in {n \in 1..Len(writes) : writes[n].key # HeaderKey}})
             = Cardinality({e \in FileEntries : Carries(e)})

\* C10: a row of a FileID that carries the derived value has its output file
\* in the output directory, in every state of the run.
C10_WrittenBeforeAppended ==
    IndexBuilt =>
        \A e \in FileEntries :
            Carries(e) => out_filename_of(e[1]) \in OutputFiles

====
